---- MODULE Spec2Model ----
(***************************************************************************)
(* Model of forum-service: the message/comment lifecycle (MessageUseCase   *)
(* over the SQLite MessageRepository), the expired-comment sweep and the   *)
(* WebSocket broadcast hub.                                                *)
(*                                                                         *)
(* Time is counted in ticks; TicksPerSec ticks make one second, so that    *)
(* time.Format(time.RFC3339), which drops the sub-second part, is not the  *)
(* identity.  Text content is a sequence of characters.                    *)
(***************************************************************************)
EXTENDS Integers, Sequences, FiniteSets, TLC

\* ---------------------------------------------------------------- bounds
NumTasks == 2
SmallMessages == 1
SmallComments == 1
MaxMessages == 2
MaxComments == 2
MaxIds == 3
MaxSubTicks == 1
MaxJumps == 1
TicksPerSec == 2
NumSessions == 2
NumCallers == 2
QueueCap == 2
MaxEvents == 3

\* ------------------------------------------------------ program constants
MaxMessageLen == 1000
MaxCommentLen == 500
TTLMinutes == 5
TickerCap == 1

\* time.Minute, in ticks
Minute == 60 * TicksPerSec
CommentTTL == TTLMinutes * Minute

Tasks == 1..NumTasks
Sessions == 1..NumSessions

\* ------------------------------------------------------------------ text
Repeat(ch, n) == [i \in 1..n |-> ch]

Empty == <<>>
Blank == <<" ">>
Hello == <<"a">>
LongComment == Repeat("a", MaxCommentLen + 1)
LongMessage == Repeat("a", MaxMessageLen + 1)

MessageContents == {Empty, Blank, Hello, LongMessage}
CommentContents == {Empty, Blank, Hello, LongComment}
RaceContents == {Empty, Hello}
Usernames == {<<"u">>}
UserIds == {0, 1}

IsSpace(ch) == ch \in {" ", "\t", "\n", "\r"}

\* strings.TrimSpace: the text without its leading and trailing white space
TrimSpace(s) ==
  LET keep == {i \in 1..Len(s) : ~IsSpace(s[i])}
  IN  IF keep = {} THEN <<>>
      ELSE LET lo == CHOOSE i \in keep : \A j \in keep : i <= j
               hi == CHOOSE i \in keep : \A j \in keep : j <= i
           IN  SubSeq(s, lo, hi)

\* domain.Message.Validate: "" for nil, otherwise the error text
MessageValidate(m) ==
  IF TrimSpace(m.content) = <<>> THEN "content cannot be empty"
  ELSE IF TrimSpace(m.username) = <<>> THEN "username cannot be empty"
  ELSE IF Len(m.content) > MaxMessageLen THEN "content too long"
  ELSE ""

\* domain.Comment.Validate
CommentValidate(c) ==
  IF TrimSpace(c.content) = <<>> THEN "content cannot be empty"
  ELSE IF TrimSpace(c.username) = <<>> THEN "username cannot be empty"
  ELSE IF Len(c.content) > MaxCommentLen THEN "comment too long"
  ELSE IF c.messageId <= 0 THEN "invalid message ID"
  ELSE ""

\* ------------------------------------------------------------------ time
\* t.Format(time.RFC3339) followed by time.Parse: second precision
Format(t) == t - (t % TicksPerSec)

\* ---------------------------------------------------------------- values
NoMessage == [id |-> 0, userId |-> 0, username |-> <<>>, content |-> <<>>,
              createdAt |-> 0, banned |-> FALSE]
NoComment == [id |-> 0, messageId |-> 0, userId |-> 0, username |-> <<>>,
              content |-> <<>>, createdAt |-> 0, expiresAt |-> 0]
NoRet == [err |-> "", msgs |-> <<>>, cmts |-> <<>>, total |-> 0]

IdleTask == [pc |-> "idle", op |-> "none", userId |-> 0, username |-> <<>>,
             content |-> <<>>, id |-> 0, limit |-> 0, offset |-> 0,
             auth |-> "none", message |-> NoMessage, comment |-> NoComment,
             expiresAt |-> 0, total |-> 0, ret |-> NoRet, trace |-> <<>>,
             gone |-> {}, token |-> "none"]

\* In a task, token is what the Authorization header of its HTTP request
\* validates to ("none" without a header or outside HTTP), trace is the history of the calls it made to the auth
\* client, the repository and the hub, and gone the history of the comment
\* rows its DELETE of the children of a message removed.
VARIABLES
  now,        \* the wall clock, in ticks
  messages,   \* table messages: id -> row
  msgSeq,     \* sqlite_sequence of messages (AUTOINCREMENT high-water mark)
  comments,   \* table comments: id -> row
  cmtSeq,     \* sqlite_sequence of comments
  task,       \* the request goroutines: position, arguments, locals, result
  sched,      \* the cleanup scheduler: waiting, sweeping, or its last result
  ticker,     \* the ticks waiting in the channel of the scheduler's ticker
  running,    \* the number of sweeps in progress
  issued,     \* history: ids returned by successful MessageRepository.Create
  clients,    \* Hub.clients: the registered sessions
  closed,     \* sessions whose send channel was closed
  queue,      \* session -> buffered content of its send channel
  lastEvent,  \* history: message id -> the last payload published for it
  accepted,   \* history (hub specification): payloads received on Hub.broadcast
  enqueued,   \* history: session -> payloads sent on its send channel
  since,      \* history: session -> len(accepted) when it was registered
  joined,     \* history: sessions that asked to be registered
  dropped,    \* history: sessions the hub removed because their queue was full
  closes,     \* history: session -> number of close(client.send) executed
  noops,      \* history: sessions unregistered while not in Hub.clients
  waiting     \* caller -> the request it is blocked sending to the hub

vars == <<now, messages, msgSeq, comments, cmtSeq, task, sched, ticker, running,
          issued,
          clients, closed, queue, lastEvent, accepted, enqueued, since, joined,
          dropped, closes, noops, waiting>>
schedVars == <<sched, ticker, running>>
storeVars == <<messages, msgSeq, comments, cmtSeq, issued>>
hubVars == <<clients, closed, queue, lastEvent, accepted, enqueued, since, joined,
            dropped, closes, noops, waiting>>

\* =================================================================== hub
\* The payloads published in the hub-only specification: json.Marshal of
\* two different messages.
Payloads == {[NoMessage EXCEPT !.id = 1, !.content = Hello],
             [NoMessage EXCEPT !.id = 2, !.content = Hello]}

\* Hub.Run, case message := <-h.broadcast: the non-blocking send to every
\* registered client; a client whose channel is full is closed and deleted.
Full(c) == Len(queue[c]) >= QueueCap

\* a send that takes the channel for full one slot early
FanOutQueueEarlyFull(message) ==
  [c \in Sessions |->
     IF c \in clients /\ Len(queue[c]) < QueueCap - 1
     THEN Append(queue[c], message)
     ELSE queue[c]]

FanOutQueue(message) ==
  [c \in Sessions |->
     IF c \in clients /\ ~Full(c) THEN Append(queue[c], message)
     ELSE queue[c]]

\* a fan-out that forgets delete(h.clients, client)
FanOutClientsKept == clients

FanOutClients == {c \in clients : ~Full(c)}

FanOutClosed == closed \cup {c \in clients : Full(c)}

RunBroadcast(message) ==
  /\ lastEvent' = [i \in DOMAIN lastEvent \cup {message.id} |->
                     IF i = message.id THEN message ELSE lastEvent[i]]
  /\ queue' = FanOutQueue(message)
  /\ enqueued' = [c \in Sessions |->
                    IF queue'[c] # queue[c]
                    THEN Append(enqueued[c], queue'[c][Len(queue'[c])])
                    ELSE enqueued[c]]
  /\ clients' = FanOutClients
  /\ closed' = FanOutClosed
  /\ dropped' = dropped \cup (clients \ clients')
  /\ closes' = [c \in Sessions |->
                  IF c \in clients /\ Full(c) THEN closes[c] + 1 ELSE closes[c]]
  /\ UNCHANGED noops

\* Hub.Run, case client := <-h.register.  A session is handed to the hub
\* once, when its connection is set up.
RunRegister(c) ==
  /\ c \notin joined
  /\ joined' = joined \cup {c}
  /\ clients' = clients \cup {c}
  /\ since' = [since EXCEPT ![c] = Len(accepted)]
  /\ UNCHANGED <<closed, queue, lastEvent, accepted, enqueued, dropped, closes,
               noops>>
  /\ UNCHANGED <<now, task, schedVars>> /\ UNCHANGED storeVars

\* an unregister that closes the channel and forgets delete(h.clients, client)
UnregisterClientsKept(c) == clients

\* Hub.Run, case client := <-h.unregister
UnregisterClients(c) == clients \ {c}

UnregisterClosed(c) == IF c \in clients THEN closed \cup {c} ELSE closed

\* an unregister that closes the channel without looking for the client
\* in h.clients
UnregisterClosesAlways(c) == [closes EXCEPT ![c] = @ + 1]

UnregisterCloses(c) ==
  IF c \in clients THEN [closes EXCEPT ![c] = @ + 1] ELSE closes

RunUnregister(c) ==
  /\ clients' = UnregisterClients(c)
  /\ closed' = UnregisterClosed(c)
  /\ closes' = UnregisterCloses(c)
  /\ noops' = IF c \in clients THEN noops ELSE noops \cup {c}
  /\ UNCHANGED <<queue, lastEvent, accepted, enqueued, since, joined, dropped>>
  /\ UNCHANGED <<now, task, schedVars>> /\ UNCHANGED storeVars

\* Hub.BroadcastMessage called by a publisher outside the lifecycle manager
Publish(message) ==
  /\ Len(accepted) < MaxEvents
  /\ accepted' = Append(accepted, message)
  /\ RunBroadcast(message)
  /\ UNCHANGED <<since, joined, waiting>>
  /\ UNCHANGED <<now, task, schedVars>> /\ UNCHANGED storeVars

\* The delivery task of a session takes the next payload from its channel.
Deliver(c) ==
  /\ queue[c] # <<>>
  /\ queue' = [queue EXCEPT ![c] = Tail(queue[c])]
  /\ UNCHANGED <<clients, closed, lastEvent, accepted, enqueued, since, joined,
               dropped, closes, noops, waiting>>
  /\ UNCHANGED <<now, task, schedVars>> /\ UNCHANGED storeVars

\* The goroutines that send on the channels of the hub, and what they send:
\* a client on register or unregister, a payload on broadcast.
Callers == 1..NumCallers

NoRequest == [kind |-> "none", client |-> 0, message |-> NoMessage]

Requests ==
  {[kind |-> k, client |-> c, message |-> NoMessage] :
     k \in {"register", "unregister"}, c \in Sessions}
  \cup {[kind |-> "broadcast", client |-> 0, message |-> m] : m \in Payloads}

Sending(kind) == {p \in Callers : waiting[p].kind = kind}

\* h.register <- client, h.unregister <- client, h.broadcast <- data: the
\* channels have no buffer, so the sender waits for Hub.Run to receive.
Send(p, req) ==
  /\ waiting[p] = NoRequest
  /\ req.kind = "register" =>
        /\ req.client \notin joined
        /\ \A q \in Sending("register") : waiting[q].client # req.client
  /\ req.kind = "broadcast" =>
        Len(accepted) + Cardinality(Sending("broadcast")) < MaxEvents
  /\ waiting' = [waiting EXCEPT ![p] = req]
  /\ UNCHANGED <<clients, closed, queue, lastEvent, accepted, enqueued, since,
               joined, dropped, closes, noops>>
  /\ UNCHANGED <<now, task, schedVars>> /\ UNCHANGED storeVars

\* a fan-out with a plain send, client.send <- message, which waits while
\* the channel of a client is full
AwaitedFull == {c \in clients : Full(c)}

\* The clients whose channel the fan-out waits for: none, since the send
\* is in a select with a default case.
Awaited == {}

\* Hub.Run: the select receives what caller p sends and runs its case to
\* the end.
RunSelect(p) ==
  /\ waiting[p] # NoRequest
  /\ waiting' = [waiting EXCEPT ![p] = NoRequest]
  /\ CASE waiting[p].kind = "register" -> RunRegister(waiting[p].client)
       [] waiting[p].kind = "unregister" -> RunUnregister(waiting[p].client)
       [] OTHER ->
            /\ Awaited = {}
            /\ accepted' = Append(accepted, waiting[p].message)
            /\ RunBroadcast(waiting[p].message)
            /\ UNCHANGED <<since, joined>>
            /\ UNCHANGED <<now, task, schedVars>> /\ UNCHANGED storeVars

\* ============================================================== lifecycle
MessageIds == 1..MaxMessages
SmallIds == 1..SmallMessages
Limits == {1, 10}
Offsets == {0, 1}
AuthOutcomes == {"ok", "banned", "error"}
CommentIds == 1..MaxComments

\* the ExpiresAt a caller sets on a new comment: the start of time, which is
\* in the past as soon as the clock has moved, or later than the clock gets
FarFuture == (MaxJumps + 2) * CommentTTL
ExpiryInputs == {0, FarFuture}

Max(S) == CHOOSE x \in S : \A y \in S : y <= x

\* INTEGER PRIMARY KEY without AUTOINCREMENT: one more than the largest
\* rowid now in the table
RowidIncrement(seq, rows) == Max({0} \cup DOMAIN rows) + 1

\* INTEGER PRIMARY KEY AUTOINCREMENT: one more than the largest rowid the
\* table has ever held (sqlite_sequence), deleted rows included.
AutoIncrement(seq, rows) == Max({seq} \cup DOMAIN rows) + 1

Insert(rows, id, row) == [i \in DOMAIN rows \cup {id} |->
                            IF i = id THEN row ELSE rows[i]]

Remove(rows, ids) == [i \in DOMAIN rows \ ids |-> rows[i]]

\* the row of a table as the entity the repository scans it into
MessageOf(id) == [id |-> id, userId |-> messages[id].userId,
                  username |-> messages[id].username,
                  content |-> messages[id].content,
                  createdAt |-> messages[id].createdAt,
                  banned |-> messages[id].banned]

CommentOf(id) == [id |-> id, messageId |-> comments[id].messageId,
                  userId |-> comments[id].userId,
                  username |-> comments[id].username,
                  content |-> comments[id].content,
                  createdAt |-> comments[id].createdAt,
                  expiresAt |-> comments[id].expiresAt]

\* all the sequences that list the ids of S once each
Perms(S) == {f \in [1..Cardinality(S) -> S] :
               \A i, j \in 1..Cardinality(S) : i # j => f[i] # f[j]}

\* LIMIT ? without the OFFSET
TakeNoOffset(seq, limit, offset) ==
  SubSeq(seq, 1, IF limit < Len(seq) THEN limit ELSE Len(seq))

\* ... LIMIT ? OFFSET ?
Take(seq, limit, offset) ==
  SubSeq(seq, offset + 1, IF offset + limit < Len(seq) THEN offset + limit
                          ELSE Len(seq))

\* SELECT ... FROM messages: the rows the List query selects
ListRows == DOMAIN messages

\* ... ORDER BY created_at DESC: any order of the rows that is descending
\* in created_at (rows of the same second come in an unspecified order)
ListOrders ==
  {f \in Perms(ListRows) :
     \A i, j \in 1..Len(f) :
        i < j => messages[f[i]].createdAt >= messages[f[j]].createdAt}

\* SELECT COUNT(*) FROM messages
ListTotal == Cardinality(DOMAIN messages)

\* SELECT ... FROM messages ORDER BY created_at DESC (GetAllMessages)
AllOrders ==
  {f \in Perms(DOMAIN messages) :
     \A i, j \in 1..Len(f) :
        i < j => messages[f[i]].createdAt >= messages[f[j]].createdAt}

\* ... AND expires_at >= ?
UnexpiredInclusive(expiresAt, at) == expiresAt >= Format(at)

\* SELECT ... FROM comments WHERE message_id = ? AND expires_at > ?
Unexpired(expiresAt, at) == expiresAt > Format(at)

CommentRows(messageID) ==
  {c \in DOMAIN comments : /\ comments[c].messageId = messageID
                           /\ Unexpired(comments[c].expiresAt, now)}

\* ... ORDER BY created_at ASC
CommentOrders(messageID) ==
  {f \in Perms(CommentRows(messageID)) :
     \A i, j \in 1..Len(f) :
        i < j => comments[f[i]].createdAt <= comments[f[j]].createdAt}

\* DELETE FROM comments WHERE expires_at < ?
ExpiredStrict(expiresAt, at) == expiresAt < Format(at)

\* DELETE FROM comments WHERE expires_at <= ?
Expired(expiresAt, at) == expiresAt <= Format(at)

DeleteExpired(rows, at) ==
  Remove(rows, {c \in DOMAIN rows : Expired(rows[c].expiresAt, at)})

\* ------------------------------------------------------------ task steps
At(t, pc) == task[t].pc = pc

Goto(t, pc, name) ==
  [task[t] EXCEPT !.pc = pc, !.trace = Append(@, name)]

Fail(t, err, name) ==
  [task[t] EXCEPT !.pc = "ret", !.trace = Append(@, name),
                  !.ret = [NoRet EXCEPT !.err = err]]

Set(t, rec) == task' = [task EXCEPT ![t] = rec]

\* the call returns to its caller
Return(t) ==
  /\ At(t, "ret")
  /\ Set(t, IdleTask)
  /\ UNCHANGED <<now, schedVars>> /\ UNCHANGED storeVars /\ UNCHANGED hubVars

\* CreateMessage without the check of content == ""
CreateMessageUnchecked(t, userID, username, content) ==
  /\ At(t, "idle")
  /\ LET call == [IdleTask EXCEPT !.op = "CreateMessage", !.userId = userID,
                                  !.username = username, !.content = content]
     IN  Set(t, IF userID # 0 THEN [call EXCEPT !.pc = "cm_auth"]
                ELSE [call EXCEPT !.pc = "cm_create"])
  /\ UNCHANGED <<now, schedVars>> /\ UNCHANGED storeVars /\ UNCHANGED hubVars

\* .......................................................... CreateMessage
CreateMessage(t, userID, username, content) ==
  /\ At(t, "idle")
  /\ LET call == [IdleTask EXCEPT !.op = "CreateMessage", !.userId = userID,
                                  !.username = username, !.content = content]
     IN  Set(t, IF content = <<>>
                THEN [call EXCEPT !.pc = "ret",
                           !.ret = [NoRet EXCEPT !.err = "content is required"]]
                ELSE IF userID # 0 THEN [call EXCEPT !.pc = "cm_auth"]
                ELSE [call EXCEPT !.pc = "cm_create"])
  /\ UNCHANGED <<now, schedVars>> /\ UNCHANGED storeVars /\ UNCHANGED hubVars

\* GetUser without the check of user.IsBanned
CreateMessageGetUserNoBan(t, outcome) ==
  /\ At(t, "cm_auth")
  /\ Set(t, [(CASE outcome = "error" ->
                       Fail(t, "user lookup failed", "GetUser")
                 [] OTHER -> Goto(t, "cm_create", "GetUser"))
               EXCEPT !.auth = outcome])
  /\ UNCHANGED <<now, schedVars>> /\ UNCHANGED storeVars /\ UNCHANGED hubVars

\* u.authClient.GetUser(userID) and the check of user.IsBanned
CreateMessageGetUser(t, outcome) ==
  /\ At(t, "cm_auth")
  /\ Set(t, [(CASE outcome = "error" ->
                       Fail(t, "user lookup failed", "GetUser")
                 [] outcome = "banned" -> Fail(t, "user is banned", "GetUser")
                 [] OTHER -> Goto(t, "cm_create", "GetUser"))
               EXCEPT !.auth = outcome])
  /\ UNCHANGED <<now, schedVars>> /\ UNCHANGED storeVars /\ UNCHANGED hubVars

\* the message built by the use case and MessageRepository.Create
NewMessage(t) == [id |-> 0, userId |-> task[t].userId,
                  username |-> task[t].username, content |-> task[t].content,
                  createdAt |-> now, banned |-> FALSE]

MessageRow(m) == [userId |-> m.userId, username |-> m.username,
                  content |-> m.content, createdAt |-> Format(m.createdAt),
                  banned |-> m.banned]

\* Create that ignores the error of the insert and goes on to broadcast
CreateMessageCreateIgnoreErr(t, ok, cap) ==
  /\ At(t, "cm_create")
  /\ IF ok
     THEN LET id == AutoIncrement(msgSeq, messages)
          IN  /\ id <= cap
              /\ messages' = Insert(messages, id, MessageRow(NewMessage(t)))
              /\ msgSeq' = id
              /\ issued' = Append(issued, id)
              /\ Set(t, [Goto(t, "cm_bcast", "Create") EXCEPT
                           !.message = [NewMessage(t) EXCEPT !.id = id]])
     ELSE /\ Set(t, [Goto(t, "cm_bcast", "Create") EXCEPT
                       !.message = NewMessage(t)])
          /\ UNCHANGED <<messages, msgSeq, issued>>
  /\ UNCHANGED <<now, schedVars, comments, cmtSeq>> /\ UNCHANGED hubVars

CreateMessageCreate(t, ok, cap) ==
  /\ At(t, "cm_create")
  /\ IF ok
     THEN LET id == AutoIncrement(msgSeq, messages)
          IN  /\ id <= cap
              /\ messages' = Insert(messages, id, MessageRow(NewMessage(t)))
              /\ msgSeq' = id
              /\ issued' = Append(issued, id)
              /\ Set(t, [Goto(t, "cm_bcast", "Create") EXCEPT
                           !.message = [NewMessage(t) EXCEPT !.id = id]])
     ELSE /\ Set(t, Fail(t, "database error", "Create"))
          /\ UNCHANGED <<messages, msgSeq, issued>>
  /\ UNCHANGED <<now, schedVars, comments, cmtSeq>> /\ UNCHANGED hubVars

\* u.hub.BroadcastMessage(message), then return message, nil
CreateMessageBroadcast(t) ==
  /\ At(t, "cm_bcast")
  /\ RunBroadcast(task[t].message)
  /\ Set(t, [Goto(t, "ret", "Broadcast") EXCEPT
               !.ret = [NoRet EXCEPT !.msgs = <<task[t].message>>]])
  /\ UNCHANGED <<now, schedVars, accepted, since, joined, waiting>>
  /\ UNCHANGED storeVars


\* ................................................ BanMessage, UnbanMessage
\* message, err := u.repo.GetByID(id)
FlagCall(op, id, ok) ==
  LET call == [IdleTask EXCEPT !.op = op, !.id = id, !.trace = <<"GetByID">>]
  IN  IF ~ok
      THEN [call EXCEPT !.pc = "ret",
                 !.ret = [NoRet EXCEPT !.err = "database error"]]
      ELSE IF id \notin DOMAIN messages
      THEN [call EXCEPT !.pc = "ret",
                 !.ret = [NoRet EXCEPT !.err = "message not found"]]
      ELSE [call EXCEPT !.pc = "flag", !.message = MessageOf(id)]

FlagGetByID(t, op, id, ok) ==
  /\ At(t, "idle")
  /\ Set(t, FlagCall(op, id, ok))
  /\ UNCHANGED <<now, schedVars>> /\ UNCHANGED storeVars /\ UNCHANGED hubVars

\* UPDATE messages SET is_banned = ? without the WHERE
SetBannedAll(rows, id, flag) ==
  [i \in DOMAIN rows |-> [rows[i] EXCEPT !.banned = flag]]

\* UPDATE messages SET is_banned = ? WHERE id = ?
SetBanned(rows, id, flag) ==
  [i \in DOMAIN rows |-> IF i = id THEN [rows[i] EXCEPT !.banned = flag]
                         ELSE rows[i]]

\* the flag update without message.IsBanned = flag on the fetched message
FlagUpdateStaleEvent(t, op, flag, ok) ==
  /\ At(t, "flag")
  /\ task[t].op = op
  /\ IF ok
     THEN /\ messages' = SetBanned(messages, task[t].id, flag)
          /\ Set(t, Goto(t, "flag_bcast", IF flag THEN "Ban" ELSE "Unban"))
     ELSE /\ Set(t, Fail(t, "database error", IF flag THEN "Ban" ELSE "Unban"))
          /\ UNCHANGED messages
  /\ UNCHANGED <<now, schedVars, msgSeq, comments, cmtSeq, issued>> /\ UNCHANGED hubVars

\* u.repo.Ban(id) / u.repo.Unban(id), then message.IsBanned = flag
FlagUpdate(t, op, flag, ok) ==
  /\ At(t, "flag")
  /\ task[t].op = op
  /\ IF ok
     THEN /\ messages' = SetBanned(messages, task[t].id, flag)
          /\ Set(t, [Goto(t, "flag_bcast", IF flag THEN "Ban" ELSE "Unban")
                       EXCEPT !.message.banned = flag])
     ELSE /\ Set(t, Fail(t, "database error", IF flag THEN "Ban" ELSE "Unban"))
          /\ UNCHANGED messages
  /\ UNCHANGED <<now, schedVars, msgSeq, comments, cmtSeq, issued>> /\ UNCHANGED hubVars

\* u.hub.BroadcastMessage(message), then return nil
FlagBroadcast(t, op) ==
  /\ At(t, "flag_bcast")
  /\ task[t].op = op
  /\ RunBroadcast(task[t].message)
  /\ Set(t, Goto(t, "ret", "Broadcast"))
  /\ UNCHANGED <<now, schedVars, accepted, since, joined, waiting>>
  /\ UNCHANGED storeVars

BanMessage(t, id, ok) == FlagGetByID(t, "BanMessage", id, ok)
BanMessageBan(t, ok) == FlagUpdate(t, "BanMessage", TRUE, ok)
BanMessageBroadcast(t) == FlagBroadcast(t, "BanMessage")

UnbanMessage(t, id, ok) == FlagGetByID(t, "UnbanMessage", id, ok)
UnbanMessageUnban(t, ok) == FlagUpdate(t, "UnbanMessage", FALSE, ok)
UnbanMessageBroadcast(t) == FlagBroadcast(t, "UnbanMessage")

\* .......................................................... DeleteMessage
DeleteMessageCall(id, ok) ==
  LET call == [IdleTask EXCEPT !.op = "DeleteMessage", !.id = id,
                               !.trace = <<"GetByID">>]
  IN  IF ~ok
      THEN [call EXCEPT !.pc = "ret",
                 !.ret = [NoRet EXCEPT !.err = "database error"]]
      ELSE IF id \notin DOMAIN messages
      THEN [call EXCEPT !.pc = "ret",
                 !.ret = [NoRet EXCEPT !.err = "message not found"]]
      ELSE [call EXCEPT !.pc = "dm_comments"]

DeleteMessage(t, id, ok) ==
  /\ At(t, "idle")
  /\ Set(t, DeleteMessageCall(id, ok))
  /\ UNCHANGED <<now, schedVars>> /\ UNCHANGED storeVars /\ UNCHANGED hubVars

ChildrenOf(id) == {c \in DOMAIN comments : comments[c].messageId = id}

\* Delete that leaves the comments to the cascade of the foreign key
DeleteMessageCommentsSkipped(t, ok) ==
  /\ At(t, "dm_comments")
  /\ Set(t, Goto(t, "dm_message", "Delete"))
  /\ UNCHANGED <<now, schedVars>> /\ UNCHANGED storeVars /\ UNCHANGED hubVars

\* MessageRepository.Delete: DELETE FROM comments WHERE message_id = ?
DeleteMessageComments(t, ok) ==
  /\ At(t, "dm_comments")
  /\ IF ok
     THEN /\ comments' = Remove(comments, ChildrenOf(task[t].id))
          /\ Set(t, [Goto(t, "dm_message", "Delete") EXCEPT
                       !.gone = ChildrenOf(task[t].id)])
     ELSE /\ Set(t, Fail(t, "database error", "Delete"))
          /\ UNCHANGED comments
  /\ UNCHANGED <<now, schedVars, messages, msgSeq, cmtSeq, issued>> /\ UNCHANGED hubVars

\* a DeleteMessage that publishes the deleted id to the hub
DeleteMessageRowAnnounced(t, ok, fk) ==
  /\ At(t, "dm_message")
  /\ IF ok
     THEN /\ messages' = Remove(messages, {task[t].id})
          /\ comments' = IF fk THEN Remove(comments, ChildrenOf(task[t].id))
                         ELSE comments
          /\ Set(t, [task[t] EXCEPT !.pc = "ret"])
     ELSE /\ Set(t, [task[t] EXCEPT !.pc = "ret",
                       !.ret = [NoRet EXCEPT !.err = "database error"]])
          /\ UNCHANGED <<messages, comments>>
  /\ RunBroadcast([NoMessage EXCEPT !.id = task[t].id])
  /\ UNCHANGED <<now, schedVars, msgSeq, cmtSeq, issued>>
  /\ UNCHANGED <<accepted, since, joined, waiting>>

\* MessageRepository.Delete: DELETE FROM messages WHERE id = ?  The
\* cascade to the comments runs only on a connection of the pool that has
\* PRAGMA foreign_keys = ON (fk).
DeleteMessageRow(t, ok, fk) ==
  /\ At(t, "dm_message")
  /\ IF ok
     THEN /\ messages' = Remove(messages, {task[t].id})
          /\ comments' = IF fk THEN Remove(comments, ChildrenOf(task[t].id))
                         ELSE comments
          /\ Set(t, [task[t] EXCEPT !.pc = "ret"])
     ELSE /\ Set(t, [task[t] EXCEPT !.pc = "ret",
                       !.ret = [NoRet EXCEPT !.err = "database error"]])
          /\ UNCHANGED <<messages, comments>>
  /\ UNCHANGED <<now, schedVars, msgSeq, cmtSeq, issued>> /\ UNCHANGED hubVars

\* ............................................................ GetMessages
\* MessageRepository.List: SELECT COUNT(*) FROM messages
GetMessages(t, limit, offset, ok) ==
  /\ At(t, "idle")
  /\ LET call == [IdleTask EXCEPT !.op = "GetMessages", !.limit = limit,
                                  !.offset = offset, !.trace = <<"List">>]
     IN  Set(t, IF ~ok
                THEN [call EXCEPT !.pc = "ret",
                           !.ret = [NoRet EXCEPT !.err = "database error"]]
                ELSE [call EXCEPT !.pc = "gm_select", !.total = ListTotal])
  /\ UNCHANGED <<now, schedVars>> /\ UNCHANGED storeVars /\ UNCHANGED hubVars

\* MessageRepository.List: SELECT ... ORDER BY created_at DESC LIMIT ? OFFSET ?
GetMessagesSelect(t, ok) ==
  /\ At(t, "gm_select")
  /\ IF ok
     THEN \E order \in ListOrders :
            Set(t, [task[t] EXCEPT !.pc = "ret",
                      !.ret = [NoRet EXCEPT
                         !.msgs = [i \in DOMAIN Take(order, task[t].limit,
                                                     task[t].offset) |->
                                     MessageOf(Take(order, task[t].limit,
                                                    task[t].offset)[i])],
                         !.total = task[t].total]])
     ELSE Set(t, [task[t] EXCEPT !.pc = "ret",
                    !.ret = [NoRet EXCEPT !.err = "database error"]])
  /\ UNCHANGED <<now, schedVars>> /\ UNCHANGED storeVars /\ UNCHANGED hubVars

\* ......................................................... GetAllMessages
GetAllMessages(t, ok) ==
  /\ At(t, "idle")
  /\ LET call == [IdleTask EXCEPT !.op = "GetAllMessages", !.pc = "ret",
                                  !.trace = <<"GetAllMessages">>]
     IN  IF ok
         THEN \E order \in AllOrders :
                Set(t, [call EXCEPT !.ret = [NoRet EXCEPT
                          !.msgs = [i \in DOMAIN order |-> MessageOf(order[i])]]])
         ELSE Set(t, [call EXCEPT
                        !.ret = [NoRet EXCEPT !.err = "database error"]])
  /\ UNCHANGED <<now, schedVars>> /\ UNCHANGED storeVars /\ UNCHANGED hubVars

\* .......................................................... CreateComment
CreateComment(t, messageID, userID, username, content) ==
  /\ At(t, "idle")
  /\ LET call == [IdleTask EXCEPT !.op = "CreateComment", !.id = messageID,
                                  !.userId = userID, !.username = username,
                                  !.content = content]
     IN  Set(t, IF content = <<>>
                THEN [call EXCEPT !.pc = "ret",
                           !.ret = [NoRet EXCEPT !.err = "content is required"]]
                ELSE IF userID # 0 THEN [call EXCEPT !.pc = "cc_auth"]
                ELSE [call EXCEPT !.pc = "cc_get"])
  /\ UNCHANGED <<now, schedVars>> /\ UNCHANGED storeVars /\ UNCHANGED hubVars

CreateCommentGetUser(t, outcome) ==
  /\ At(t, "cc_auth")
  /\ Set(t, [(CASE outcome = "error" ->
                       Fail(t, "user lookup failed", "GetUser")
                 [] outcome = "banned" -> Fail(t, "user is banned", "GetUser")
                 [] OTHER -> Goto(t, "cc_get", "GetUser"))
               EXCEPT !.auth = outcome])
  /\ UNCHANGED <<now, schedVars>> /\ UNCHANGED storeVars /\ UNCHANGED hubVars

\* CreateComment that does not look at the result of GetByID
CreateCommentGetByIDUnchecked(t, ok) ==
  /\ At(t, "cc_get")
  /\ Set(t, IF ~ok THEN Fail(t, "database error", "CreateComment")
            ELSE Goto(t, "cc_insert", "CreateComment"))
  /\ UNCHANGED <<now, schedVars>> /\ UNCHANGED storeVars /\ UNCHANGED hubVars

\* MessageRepository.CreateComment: _, err := r.GetByID(comment.MessageID)
CreateCommentGetByID(t, ok) ==
  /\ At(t, "cc_get")
  /\ Set(t, IF ~ok THEN Fail(t, "database error", "CreateComment")
            ELSE IF task[t].id \notin DOMAIN messages
            THEN Fail(t, "message not found", "CreateComment")
            ELSE Goto(t, "cc_insert", "CreateComment"))
  /\ UNCHANGED <<now, schedVars>> /\ UNCHANGED storeVars /\ UNCHANGED hubVars

\* CreateComment that keeps an ExpiresAt the caller has set
NewCommentAsGiven(t) ==
  [id |-> 0, messageId |-> task[t].id,
   userId |-> task[t].userId, username |-> task[t].username,
   content |-> task[t].content, createdAt |-> now,
   expiresAt |-> IF task[t].expiresAt # 0 THEN task[t].expiresAt
                 ELSE now + CommentTTL]

\* comment.CreatedAt = time.Now().UTC(); comment.ExpiresAt = CreatedAt + 5 min
NewComment(t) == [id |-> 0, messageId |-> task[t].id,
                  userId |-> task[t].userId, username |-> task[t].username,
                  content |-> task[t].content, createdAt |-> now,
                  expiresAt |-> now + CommentTTL]

CommentRow(c) == [messageId |-> c.messageId, userId |-> c.userId,
                  username |-> c.username, content |-> c.content,
                  createdAt |-> Format(c.createdAt),
                  expiresAt |-> Format(c.expiresAt)]

\* MessageRepository.CreateComment: INSERT INTO comments ...; on a
\* connection with foreign keys on (fk) the insert fails without its parent
CreateCommentInsert(t, ok, fk, cap) ==
  /\ At(t, "cc_insert")
  /\ IF ok /\ (fk => task[t].id \in DOMAIN messages)
     THEN LET id == AutoIncrement(cmtSeq, comments)
          IN  /\ id <= cap
              /\ comments' = Insert(comments, id, CommentRow(NewComment(t)))
              /\ cmtSeq' = id
              /\ Set(t, [task[t] EXCEPT !.pc = "ret",
                           !.comment = [NewComment(t) EXCEPT !.id = id],
                           !.ret = [NoRet EXCEPT
                              !.cmts = <<[NewComment(t) EXCEPT !.id = id]>>]])
     ELSE /\ Set(t, [task[t] EXCEPT !.pc = "ret",
                       !.ret = [NoRet EXCEPT !.err = "database error"]])
          /\ UNCHANGED <<comments, cmtSeq>>
  /\ UNCHANGED <<now, schedVars, messages, msgSeq, issued>> /\ UNCHANGED hubVars

\* ............................................................ GetComments
\* MessageRepository.GetComments: _, err := r.GetByID(messageID)
GetComments(t, messageID, ok) ==
  /\ At(t, "idle")
  /\ LET call == [IdleTask EXCEPT !.op = "GetComments", !.id = messageID,
                                  !.trace = <<"GetComments">>]
     IN  Set(t, IF ~ok
                THEN [call EXCEPT !.pc = "ret",
                           !.ret = [NoRet EXCEPT !.err = "database error"]]
                ELSE IF messageID \notin DOMAIN messages
                THEN [call EXCEPT !.pc = "ret",
                           !.ret = [NoRet EXCEPT !.err = "message not found"]]
                ELSE [call EXCEPT !.pc = "gc_select"])
  /\ UNCHANGED <<now, schedVars>> /\ UNCHANGED storeVars /\ UNCHANGED hubVars

\* MessageRepository.GetComments: now := time.Now().UTC(); SELECT ...
GetCommentsSelect(t, ok) ==
  /\ At(t, "gc_select")
  /\ IF ok
     THEN \E order \in CommentOrders(task[t].id) :
            Set(t, [task[t] EXCEPT !.pc = "ret",
                      !.ret = [NoRet EXCEPT
                         !.cmts = [i \in DOMAIN order |-> CommentOf(order[i])]]])
     ELSE Set(t, [task[t] EXCEPT !.pc = "ret",
                    !.ret = [NoRet EXCEPT !.err = "database error"]])
  /\ UNCHANGED <<now, schedVars>> /\ UNCHANGED storeVars /\ UNCHANGED hubVars

\* ....................................... the repository called directly
\* MessageRepository.CreateComment called with a comment whose ExpiresAt the
\* caller has set (expiresAt); the steps of the call are
\* CreateCommentGetByID and CreateCommentInsert.
RepoCreateComment(t, messageID, expiresAt) ==
  /\ At(t, "idle")
  /\ Set(t, [IdleTask EXCEPT !.op = "RepoCreateComment", !.pc = "cc_get",
                             !.id = messageID, !.username = <<"u">>,
                             !.content = Hello, !.expiresAt = expiresAt])
  /\ UNCHANGED <<now, schedVars>> /\ UNCHANGED storeVars /\ UNCHANGED hubVars

\* MessageRepository.GetCommentByID: SELECT ... FROM comments WHERE id = ?
GetCommentByID(t, id, ok) ==
  /\ At(t, "idle")
  /\ LET call == [IdleTask EXCEPT !.op = "GetCommentByID", !.id = id,
                                  !.pc = "ret", !.trace = <<"GetCommentByID">>]
     IN  Set(t, IF ~ok
                THEN [call EXCEPT !.ret = [NoRet EXCEPT !.err = "database error"]]
                ELSE IF id \notin DOMAIN comments
                THEN [call EXCEPT !.ret = [NoRet EXCEPT !.err = "comment not found"]]
                ELSE [call EXCEPT !.ret = [NoRet EXCEPT !.cmts = <<CommentOf(id)>>]])
  /\ UNCHANGED <<now, schedVars>> /\ UNCHANGED storeVars /\ UNCHANGED hubVars

\* .......................................................... DeleteComment
\* comment, err := u.repo.GetCommentByID(id)
DeleteCommentCall(id, ok) ==
  LET call == [IdleTask EXCEPT !.op = "DeleteComment", !.id = id,
                               !.trace = <<"GetCommentByID">>]
  IN  IF ~ok
      THEN [call EXCEPT !.pc = "ret",
                 !.ret = [NoRet EXCEPT !.err = "database error"]]
      ELSE IF id \notin DOMAIN comments
      THEN [call EXCEPT !.pc = "ret",
                 !.ret = [NoRet EXCEPT !.err = "comment not found"]]
      ELSE [call EXCEPT !.pc = "dc_delete"]

DeleteComment(t, id, ok) ==
  /\ At(t, "idle")
  /\ Set(t, DeleteCommentCall(id, ok))
  /\ UNCHANGED <<now, schedVars>> /\ UNCHANGED storeVars /\ UNCHANGED hubVars

\* u.repo.DeleteComment(id): DELETE FROM comments WHERE id = ?
DeleteCommentDelete(t, ok) ==
  /\ At(t, "dc_delete")
  /\ IF ok
     THEN /\ comments' = Remove(comments, {task[t].id})
          /\ Set(t, Goto(t, "ret", "DeleteComment"))
     ELSE /\ Set(t, Fail(t, "database error", "DeleteComment"))
          /\ UNCHANGED comments
  /\ UNCHANGED <<now, schedVars, messages, msgSeq, cmtSeq, issued>> /\ UNCHANGED hubVars

\* ............................................. the use case of usecase.go
\* UseCase.DeleteComment: return u.repo.DeleteComment(id)
UseCaseDeleteComment(t, id, ok) ==
  /\ At(t, "idle")
  /\ LET call == [IdleTask EXCEPT !.op = "UseCaseDeleteComment", !.id = id,
                                  !.pc = "ret", !.trace = <<"DeleteComment">>]
     IN  IF ok
         THEN /\ comments' = Remove(comments, {id})
              /\ Set(t, call)
         ELSE /\ Set(t, [call EXCEPT
                           !.ret = [NoRet EXCEPT !.err = "database error"]])
              /\ UNCHANGED comments
  /\ UNCHANGED <<now, schedVars, messages, msgSeq, cmtSeq, issued>> /\ UNCHANGED hubVars

\* UseCase.DeleteMessage: return u.repo.Delete(id); the statements of
\* Delete are DeleteMessageComments and DeleteMessageRow.
UseCaseDeleteMessage(t, id) ==
  /\ At(t, "idle")
  /\ Set(t, [IdleTask EXCEPT !.op = "UseCaseDeleteMessage", !.id = id,
                             !.pc = "dm_comments"])
  /\ UNCHANGED <<now, schedVars>> /\ UNCHANGED storeVars /\ UNCHANGED hubVars

\* .................................................................. HTTP
\* What the Authorization header of a request comes to: no header or no
\* Bearer prefix, a token ValidateToken refuses, the token of a user, the
\* token of an admin.
Tokens == {"none", "invalid", "user", "admin"}

\* Handler.authAdminMiddleware: authMiddleware answers 401 without a valid
\* token, and the role check answers 403 unless user.Role is "admin".
AdminOnly(token, op, call) ==
  LET refused == [IdleTask EXCEPT !.op = op, !.pc = "ret", !.token = token]
  IN  IF token \in {"none", "invalid"}
      THEN [refused EXCEPT !.ret = [NoRet EXCEPT !.err = "unauthorized"]]
      ELSE IF token # "admin"
      THEN [refused EXCEPT !.ret = [NoRet EXCEPT !.err = "forbidden"]]
      ELSE [call EXCEPT !.token = token]

\* Handler.handleBanMessage / handleUnbanMessage: POST /api/v1/messages/ban
\* and /unban decode the id and call the use case.
HandleFlag(t, op, token, id, ok) ==
  /\ At(t, "idle")
  /\ Set(t, [FlagCall(op, id, ok) EXCEPT !.token = token])
  /\ UNCHANGED <<now, schedVars>> /\ UNCHANGED storeVars /\ UNCHANGED hubVars

HandleBanMessage(t, token, id, ok) ==
  HandleFlag(t, "BanMessage", token, id, ok)

HandleUnbanMessage(t, token, id, ok) ==
  HandleFlag(t, "UnbanMessage", token, id, ok)

\* Handler.handleMessageWithID: DELETE /api/v1/messages/{id} bans the
\* message, and with ?action=delete (hard) deletes it, both behind
\* authAdminMiddleware.
HandleMessageWithID(t, token, id, hard, ok) ==
  /\ At(t, "idle")
  /\ Set(t, IF hard
            THEN AdminOnly(token, "DeleteMessage", DeleteMessageCall(id, ok))
            ELSE AdminOnly(token, "BanMessage",
                           FlagCall("BanMessage", id, ok)))
  /\ UNCHANGED <<now, schedVars>> /\ UNCHANGED storeVars /\ UNCHANGED hubVars

\* Handler.handleCommentWithID: DELETE /api/v1/comments/{id} behind
\* authAdminMiddleware.
HandleCommentWithID(t, token, id, ok) ==
  /\ At(t, "idle")
  /\ Set(t, AdminOnly(token, "DeleteComment", DeleteCommentCall(id, ok)))
  /\ UNCHANGED <<now, schedVars>> /\ UNCHANGED storeVars /\ UNCHANGED hubVars

\* ................................................................. sweep
\* StartCleanupScheduler: case <-ticker.C
SchedulerTick ==
  /\ sched # "sweep"
  /\ sched' = "sweep"
  /\ running' = running + 1
  /\ UNCHANGED <<now, task, ticker>> /\ UNCHANGED storeVars
  /\ UNCHANGED hubVars

\* time.NewTicker: the ticker sends on a channel that holds one tick, and
\* a tick that finds the channel full is dropped.
TickerFire ==
  /\ ticker' = IF ticker < TickerCap THEN ticker + 1 ELSE ticker
  /\ UNCHANGED <<now, task, sched, running>> /\ UNCHANGED storeVars
  /\ UNCHANGED hubVars

\* The states in which the scheduler's goroutine is at its select.
AtSelect == {"wait", "ok", "failed"}

\* A scheduler that starts every sweep in a goroutine of its own.
SchedulerReceiveSpawn ==
  /\ ticker > 0
  /\ ticker' = ticker - 1
  /\ sched' = "sweep"
  /\ running' = running + 1
  /\ UNCHANGED <<now, task>> /\ UNCHANGED storeVars /\ UNCHANGED hubVars

\* StartCleanupScheduler: the goroutine at its select takes the waiting
\* tick and calls CleanupExpiredComments itself.
SchedulerReceive ==
  /\ sched \in AtSelect
  /\ ticker > 0
  /\ ticker' = ticker - 1
  /\ sched' = "sweep"
  /\ running' = running + 1
  /\ UNCHANGED <<now, task>> /\ UNCHANGED storeVars /\ UNCHANGED hubVars

\* A scheduler whose goroutine returns when a sweep fails.
CleanupExpiredCommentsStops(ok) ==
  /\ sched = "sweep"
  /\ sched' = IF ok THEN "ok" ELSE "stopped"
  /\ running' = running - 1
  /\ comments' = IF ok THEN DeleteExpired(comments, now) ELSE comments
  /\ UNCHANGED <<now, messages, msgSeq, cmtSeq, issued, task, ticker>>
  /\ UNCHANGED hubVars

\* CleanupExpiredComments, that is MessageRepository.DeleteExpiredComments
\* at the current time; the scheduler logs a failure and goes on waiting.
CleanupExpiredComments(ok) ==
  /\ sched = "sweep"
  /\ sched' = IF ok THEN "ok" ELSE "failed"
  /\ running' = running - 1
  /\ comments' = IF ok THEN DeleteExpired(comments, now) ELSE comments
  /\ UNCHANGED <<now, messages, msgSeq, cmtSeq, issued, task, ticker>>
  /\ UNCHANGED hubVars

\* ................................................................. clock
\* time passes: by one tick, or by the lifetime of a comment
Tick ==
  /\ (now % CommentTTL) < MaxSubTicks
  /\ now' = now + 1
  /\ UNCHANGED <<task, schedVars>> /\ UNCHANGED storeVars /\ UNCHANGED hubVars

Jump ==
  /\ (now \div CommentTTL) < MaxJumps
  /\ now' = now + CommentTTL
  /\ UNCHANGED <<task, schedVars>> /\ UNCHANGED storeVars /\ UNCHANGED hubVars

Init ==
  /\ now = 0
  /\ messages = <<>>
  /\ msgSeq = 0
  /\ comments = <<>>
  /\ cmtSeq = 0
  /\ task = [t \in Tasks |-> IdleTask]
  /\ issued = <<>>
  /\ sched = "wait"
  /\ ticker = 0
  /\ running = 0
  /\ clients = {}
  /\ closed = {}
  /\ queue = [c \in Sessions |-> <<>>]
  /\ accepted = <<>>
  /\ lastEvent = <<>>
  /\ enqueued = [c \in Sessions |-> <<>>]
  /\ since = [c \in Sessions |-> 0]
  /\ joined = {}
  /\ dropped = {}
  /\ closes = [c \in Sessions |-> 0]
  /\ noops = {}
  /\ waiting = [p \in Callers |-> NoRequest]

\* The steps of the request goroutines in T, called with user ids from us,
\* message ids from ids and contents from mc and cc, on tables that grow to
\* at most mcap and ccap rows.
CreateStep(T, us, mc, mcap) ==
  \/ \E t \in T, u \in us, n \in Usernames, c \in mc :
        CreateMessage(t, u, n, c)
  \/ \E t \in T, ok \in BOOLEAN : CreateMessageCreate(t, ok, mcap)
  \/ \E t \in T : CreateMessageBroadcast(t)

AuthStep(T) ==
  \/ \E t \in T, o \in AuthOutcomes : CreateMessageGetUser(t, o)
  \/ \E t \in T, o \in AuthOutcomes : CreateCommentGetUser(t, o)

ModerateStep(T, ids) ==
  \/ \E t \in T, id \in ids, ok \in BOOLEAN : BanMessage(t, id, ok)
  \/ \E t \in T, ok \in BOOLEAN : BanMessageBan(t, ok)
  \/ \E t \in T : BanMessageBroadcast(t)
  \/ \E t \in T, id \in ids, ok \in BOOLEAN : UnbanMessage(t, id, ok)
  \/ \E t \in T, ok \in BOOLEAN : UnbanMessageUnban(t, ok)
  \/ \E t \in T : UnbanMessageBroadcast(t)
  \/ \E t \in T, id \in ids, ok \in BOOLEAN : DeleteMessage(t, id, ok)
  \/ \E t \in T, ok \in BOOLEAN : DeleteMessageComments(t, ok)
  \/ \E t \in T, ok, fk \in BOOLEAN : DeleteMessageRow(t, ok, fk)

ReadStep(T, ids, limits, offsets) ==
  \/ \E t \in T, l \in limits, o \in offsets, ok \in BOOLEAN :
        GetMessages(t, l, o, ok)
  \/ \E t \in T, ok \in BOOLEAN : GetMessagesSelect(t, ok)
  \/ \E t \in T, ok \in BOOLEAN : GetAllMessages(t, ok)
  \/ \E t \in T, id \in ids, ok \in BOOLEAN : GetComments(t, id, ok)
  \/ \E t \in T, ok \in BOOLEAN : GetCommentsSelect(t, ok)

CommentStep(T, us, ids, cc, ccap) ==
  \/ \E t \in T, id \in ids, u \in us, n \in Usernames, c \in cc :
        CreateComment(t, id, u, n, c)
  \/ \E t \in T, ok \in BOOLEAN : CreateCommentGetByID(t, ok)
  \/ \E t \in T, ok, fk \in BOOLEAN : CreateCommentInsert(t, ok, fk, ccap)

Background(T) ==
  \/ SchedulerTick
  \/ \E ok \in BOOLEAN : CleanupExpiredComments(ok)
  \/ \E t \in T : Return(t)
  \/ Tick
  \/ Jump

\* The repository called directly, as the integration tests call it, with
\* expiry times from es.
RepoStep(T, ids, cids, es, ccap) ==
  \/ \E t \in T, id \in ids, e \in es : RepoCreateComment(t, id, e)
  \/ \E t \in T, ok \in BOOLEAN : CreateCommentGetByID(t, ok)
  \/ \E t \in T, ok, fk \in BOOLEAN : CreateCommentInsert(t, ok, fk, ccap)
  \/ \E t \in T, id \in ids, ok \in BOOLEAN : GetComments(t, id, ok)
  \/ \E t \in T, ok \in BOOLEAN : GetCommentsSelect(t, ok)
  \/ \E t \in T, id \in cids, ok \in BOOLEAN : GetCommentByID(t, id, ok)

\* Reading and deleting single comments.
CommentAdminStep(T, cids) ==
  \/ \E t \in T, id \in cids, ok \in BOOLEAN : GetCommentByID(t, id, ok)
  \/ \E t \in T, id \in cids, ok \in BOOLEAN : DeleteComment(t, id, ok)
  \/ \E t \in T, ok \in BOOLEAN : DeleteCommentDelete(t, ok)

\* The deletes of the use case of usecase.go.
ThinStep(T, ids, cids) ==
  \/ \E t \in T, id \in cids, ok \in BOOLEAN : UseCaseDeleteComment(t, id, ok)
  \/ \E t \in T, id \in ids : UseCaseDeleteMessage(t, id)

\* Concurrent anonymous requests on a small store.
Next ==
  \/ CreateStep(Tasks, {0}, RaceContents, SmallMessages)
  \/ ModerateStep(Tasks, SmallIds)
  \/ ReadStep(Tasks, SmallIds, {10}, {0})
  \/ CommentStep(Tasks, {0}, SmallIds, RaceContents, SmallComments)
  \/ Background(Tasks)

Spec == Init /\ [][Next]_vars

\* One request at a time on a small store, with every kind of content and
\* of author.
ValidNext ==
  \/ CreateStep({1}, UserIds, MessageContents, SmallMessages)
  \/ AuthStep({1})
  \/ ModerateStep({1}, SmallIds)
  \/ ReadStep({1}, SmallIds, {10}, {0})
  \/ CommentStep({1}, UserIds, SmallIds, CommentContents, SmallComments)
  \/ Background({1})

ValidSpec == Init /\ [][ValidNext]_vars

\* One anonymous request at a time on a larger store.
DataNext ==
  \/ CreateStep({1}, {0}, {Hello}, MaxMessages)
  \/ ModerateStep({1}, MessageIds)
  \/ ReadStep({1}, MessageIds, Limits, Offsets)
  \/ CommentStep({1}, {0}, MessageIds, {Hello}, MaxComments)
  \/ CommentAdminStep({1}, CommentIds)
  \/ Background({1})

DataSpec == Init /\ [][DataNext]_vars

\* Concurrent creation, moderation and deletion of messages only.
IdNext ==
  \/ CreateStep(Tasks, {0}, {Hello}, MaxIds)
  \/ ModerateStep(Tasks, 1..MaxIds)
  \/ \E t \in Tasks : Return(t)

IdSpec == Init /\ [][IdNext]_vars

\* Two callers of the repository on one message.
RepoNext ==
  \/ CreateStep({1}, {0}, {Hello}, SmallMessages)
  \/ RepoStep(Tasks, SmallIds, CommentIds, ExpiryInputs, MaxComments)
  \/ \E id \in SmallIds, n \in Usernames : CreateComment(1, id, 0, n, Hello)
  \/ Background(Tasks)

RepoSpec == Init /\ [][RepoNext]_vars

\* One request at a time, the deletes of both use cases among them.
AdminNext ==
  \/ CreateStep({1}, {0}, {Hello}, SmallMessages)
  \/ CommentStep({1}, {0}, SmallIds, {Hello}, MaxComments)
  \/ ModerateStep({1}, SmallIds)
  \/ CommentAdminStep({1}, CommentIds)
  \/ ThinStep({1}, SmallIds, CommentIds)
  \/ Return(1)

AdminSpec == Init /\ [][AdminNext]_vars

\* The cleanup scheduler with its ticker, beside one request at a time
\* that creates the comments it sweeps.
Sweep == \E ok \in BOOLEAN : CleanupExpiredComments(ok)

SweepNext ==
  \/ CreateStep({1}, {0}, {Hello}, SmallMessages)
  \/ CommentStep({1}, {0}, SmallIds, {Hello}, MaxComments)
  \/ TickerFire
  \/ SchedulerReceive
  \/ Sweep
  \/ Return(1)
  \/ Tick
  \/ Jump

SweepSpec == Init /\ [][SweepNext]_vars

\* The ticker keeps firing, and the scheduler's goroutine keeps running:
\* it takes a waiting tick, and a sweep it has started returns.
FairSweepSpec ==
  /\ SweepSpec
  /\ WF_vars(TickerFire)
  /\ WF_vars(SchedulerReceive)
  /\ WF_vars(Sweep)

\* One request at a time by users the auth service is asked about.  The
\* steps of the request are the program's own; the return of GetUser waits
\* for the auth service, whose call is made with context.Background().
OwnStep ==
  \/ CreateStep({1}, UserIds, {Hello}, SmallMessages)
  \/ CommentStep({1}, UserIds, SmallIds, {Hello}, SmallComments)
  \/ Return(1)

AuthNext ==
  \/ OwnStep
  \/ AuthStep({1})

AuthSpec == Init /\ [][AuthNext]_vars

\* The request's goroutine keeps running; nothing makes the auth service
\* answer.
FairAuthSpec == AuthSpec /\ WF_vars(OwnStep)

HubNext ==
  \/ \E c \in Sessions : RunRegister(c) /\ UNCHANGED waiting
  \/ \E c \in Sessions : RunUnregister(c) /\ UNCHANGED waiting
  \/ \E m \in Payloads : Publish(m)
  \/ \E c \in Sessions : Deliver(c)

HubSpec == Init /\ [][HubNext]_vars

\* One HTTP request at a time: the routes that ban, unban and delete, the
\* steps of the use case they lead to, and the creation of what they act on.
HttpStep(T, ids, cids) ==
  \/ \E t \in T, k \in Tokens, id \in ids, ok \in BOOLEAN :
        HandleBanMessage(t, k, id, ok)
  \/ \E t \in T, k \in Tokens, id \in ids, ok \in BOOLEAN :
        HandleUnbanMessage(t, k, id, ok)
  \/ \E t \in T, k \in Tokens, id \in ids, hard, ok \in BOOLEAN :
        HandleMessageWithID(t, k, id, hard, ok)
  \/ \E t \in T, k \in Tokens, id \in cids, ok \in BOOLEAN :
        HandleCommentWithID(t, k, id, ok)

UseCaseStep(T) ==
  \/ \E t \in T, ok \in BOOLEAN : BanMessageBan(t, ok)
  \/ \E t \in T : BanMessageBroadcast(t)
  \/ \E t \in T, ok \in BOOLEAN : UnbanMessageUnban(t, ok)
  \/ \E t \in T : UnbanMessageBroadcast(t)
  \/ \E t \in T, ok \in BOOLEAN : DeleteMessageComments(t, ok)
  \/ \E t \in T, ok, fk \in BOOLEAN : DeleteMessageRow(t, ok, fk)
  \/ \E t \in T, ok \in BOOLEAN : DeleteCommentDelete(t, ok)

HttpNext ==
  \/ CreateStep({1}, {0}, {Hello}, SmallMessages)
  \/ CommentStep({1}, {0}, SmallIds, {Hello}, SmallComments)
  \/ HttpStep({1}, SmallIds, 1..SmallComments)
  \/ UseCaseStep({1})
  \/ Return(1)

HttpSpec == Init /\ [][HttpNext]_vars

\* One anonymous request at a time on a small store, with sessions that
\* register with the hub and leave the payloads in their channels.
FeedNext ==
  \/ CreateStep({1}, {0}, {Hello}, SmallMessages)
  \/ ModerateStep({1}, SmallIds)
  \/ ReadStep({1}, SmallIds, {10}, {0})
  \/ CommentStep({1}, {0}, SmallIds, {Hello}, SmallComments)
  \/ CommentAdminStep({1}, 1..SmallComments)
  \/ Background({1})
  \/ \E c \in Sessions : RunRegister(c) /\ UNCHANGED waiting

FeedSpec == Init /\ [][FeedNext]_vars

\* The hub with the senders on its channels: a sender waits until Hub.Run
\* receives from it.
LoopNext ==
  \/ \E p \in Callers, req \in Requests : Send(p, req)
  \/ \E p \in Callers : RunSelect(p)
  \/ \E c \in Sessions : Deliver(c)

LoopSpec == Init /\ [][LoopNext]_vars

\* Hub.Run keeps running and its select takes every sender in the end;
\* nothing makes a session take payloads from its channel.
FairLoopSpec == LoopSpec /\ \A p \in Callers : WF_vars(RunSelect(p))

\* ================================================================ claims
Last(seq) == seq[Len(seq)]

Ids(seq) == {seq[i].id : i \in DOMAIN seq}

Returned(t, op) == At(t, "ret") /\ task[t].op = op

Succeeded(t, op) == Returned(t, op) /\ task[t].ret.err = ""

\* C1: getMessages never returns a banned message and its total is the
\* number of stored messages that are not banned; getAllMessages returns
\* every stored message, the banned ones included.
C1_BannedHidden ==
  \A t \in Tasks :
    /\ Succeeded(t, "GetMessages") =>
         /\ \A i \in DOMAIN task[t].ret.msgs : ~task[t].ret.msgs[i].banned
         /\ task[t].ret.total =
              Cardinality({id \in DOMAIN messages : ~messages[id].banned})
    /\ Succeeded(t, "GetAllMessages") =>
         Ids(task[t].ret.msgs) = DOMAIN messages

\* C2: the payloads sent on the channel of a session that is still
\* registered are exactly the events the hub accepted since the session was
\* registered, in the same order, and the channel holds the last of them.
C2_QueueIsAcceptedSince ==
  \A c \in clients :
    /\ enqueued[c] = SubSeq(accepted, since[c] + 1, Len(accepted))
    /\ Len(queue[c]) <= Len(enqueued[c])
    /\ queue[c] = SubSeq(enqueued[c], Len(enqueued[c]) - Len(queue[c]) + 1,
                         Len(enqueued[c]))

C2_Witness ==
  \E c \in clients : /\ since[c] > 0
                     /\ Len(enqueued[c]) >= 2
                     /\ enqueued[c][1] # enqueued[c][2]
                     /\ dropped # {}

\* C3: when the hub accepts an event, a registered session whose channel
\* is full leaves the live set in that step, its channel is closed and it
\* gets nothing; every other registered session gets the event and stays
\* registered; a closed session never gets an event again.
C3_FullQueueDropped ==
  [][\A c \in Sessions :
       /\ (c \in clients /\ accepted' # accepted) =>
            IF Len(queue[c]) >= QueueCap
            THEN /\ c \notin clients'
                 /\ c \in closed'
                 /\ enqueued'[c] = enqueued[c]
                 /\ queue'[c] = queue[c]
            ELSE /\ c \in clients'
                 /\ c \notin closed'
                 /\ enqueued'[c] = Append(enqueued[c], Last(accepted'))
                 /\ queue'[c] = Append(queue[c], Last(accepted'))
       /\ c \in closed =>
            /\ c \in closed'
            /\ c \notin clients'
            /\ enqueued'[c] = enqueued[c]]_vars

C3_Witness ==
  \E c \in dropped, d \in clients :
    /\ c \in closed
    /\ c \notin clients
    /\ Len(queue[c]) = QueueCap
    /\ Len(accepted) > since[c] + Len(enqueued[c])
    /\ since[d] <= since[c]
    /\ Len(enqueued[d]) > Len(enqueued[c])
    /\ Last(enqueued[d]) = Last(accepted)

\* C4: createMessage and createComment called with empty content return an
\* error at once: no call to the auth service, the repository or the hub is
\* made, and the store and the hub are as before.
C4_EmptyContentRejected ==
  [][\A t \in Tasks :
       (/\ task[t].pc = "idle"
        /\ task'[t].op \in {"CreateMessage", "CreateComment"}
        /\ task'[t].content = <<>>)
       => /\ task'[t].pc = "ret"
          /\ task'[t].ret.err = "content is required"
          /\ task'[t].trace = <<>>
          /\ UNCHANGED storeVars
          /\ UNCHANGED hubVars]_vars

C4_Witness ==
  \E t \in Tasks : /\ Returned(t, "CreateMessage")
                   /\ task[t].content = <<>>
                   /\ task[t].ret.err = "content is required"
                   /\ task[t].trace = <<>>
                   /\ DOMAIN messages # {}

\* C5: every stored message has content that is not blank and at most 1000
\* characters long, every stored comment content that is not blank and at
\* most 500 characters long.
C5_StoredContentValid ==
  /\ \A id \in DOMAIN messages : MessageValidate(messages[id]) = ""
  /\ \A id \in DOMAIN comments : CommentValidate(comments[id]) = ""

\* C6: the ids returned by the successful inserts of createMessage are
\* strictly increasing in the order of the inserts, so no id is returned
\* twice, also after deletions and with concurrent creations.
C6_IdsIncrease ==
  \A i, j \in DOMAIN issued : i < j => issued[i] < issued[j]

C6_Witness ==
  /\ Len(issued) = 3
  /\ issued[1] \notin DOMAIN messages
  /\ \A t \in Tasks : At(t, "cm_bcast")

\* C7: a successful insert of createMessage stores the message under its new
\* id with banned = false (the creation time at the precision of the
\* column, one second) and publishes nothing yet; the broadcast that follows
\* hands the hub that message, with the id, and is the only one of the call;
\* a createMessage whose insert fails returns an error and has stored and
\* published nothing.
C7_CreateStoresThenPublishes ==
  [][\A t \in Tasks :
       /\ (task[t].pc = "cm_create" /\ task'[t].pc = "cm_bcast") =>
            LET m == task'[t].message
            IN  /\ m.id \notin DOMAIN messages
                /\ m.id \in DOMAIN messages'
                /\ messages'[m.id] = [userId |-> task[t].userId,
                                      username |-> task[t].username,
                                      content |-> task[t].content,
                                      createdAt |-> Format(m.createdAt),
                                      banned |-> FALSE]
                /\ [m EXCEPT !.id = 0, !.createdAt = 0] =
                     [NoMessage EXCEPT !.userId = task[t].userId,
                                       !.username = task[t].username,
                                       !.content = task[t].content]
                /\ \A id \in DOMAIN messages : messages'[id] = messages[id]
                /\ UNCHANGED hubVars
       /\ (task[t].pc = "cm_create" /\ task'[t].pc \notin {"cm_create", "cm_bcast"}) =>
            /\ task'[t].pc = "ret"
            /\ task'[t].ret.err # ""
            /\ UNCHANGED storeVars
            /\ UNCHANGED hubVars
       /\ (task[t].pc = "cm_bcast" /\ task'[t].pc # "cm_bcast") =>
            /\ task[t].message.id # 0
            /\ task[t].message.id \in {issued[i] : i \in DOMAIN issued}
            /\ ~task[t].message.banned
            /\ task[t].message.id \in DOMAIN lastEvent'
            /\ lastEvent'[task[t].message.id] = task[t].message
            /\ \A id \in DOMAIN lastEvent \ {task[t].message.id} :
                 lastEvent'[id] = lastEvent[id]
            /\ task'[t].pc = "ret"
            /\ task'[t].ret.err = ""
            /\ task'[t].ret.msgs = <<task[t].message>>
            /\ UNCHANGED storeVars
       /\ (task'[t].pc = "ret" /\ task'[t].op = "CreateMessage") =>
            LET calls == task'[t].trace
                sent == {i \in DOMAIN calls : calls[i] = "Broadcast"}
            IN  IF task'[t].ret.err = ""
                THEN /\ Cardinality(sent) = 1
                     /\ Len(calls) >= 2
                     /\ calls[Len(calls)] = "Broadcast"
                     /\ calls[Len(calls) - 1] = "Create"
                ELSE sent = {}]_vars

C7_Witness ==
  \E t \in Tasks :
    /\ Succeeded(t, "CreateMessage")
    /\ task[t].ret.msgs[1].id \in DOMAIN lastEvent
    /\ lastEvent[task[t].ret.msgs[1].id] = task[t].ret.msgs[1]
    /\ task[t].ret.msgs[1].id \in DOMAIN messages
    /\ ~messages[task[t].ret.msgs[1].id].banned
    /\ task[t].ret.msgs[1].createdAt # messages[task[t].ret.msgs[1].id].createdAt

\* C8: a createMessage or createComment for a user id other than 0 looks the
\* user up before anything else, and when the lookup fails or finds a banned
\* user it returns an error with the store and the hub as they were and no
\* call to the repository or the hub made; for user id 0 no lookup is made
\* and the call returns an error only if the repository does (a failed
\* statement or, for createComment, a missing parent).
C8_AuthBeforePersist ==
  [][\A t \in Tasks :
       /\ (task[t].pc = "idle" /\ task'[t].pc # "idle"
             /\ task'[t].op \in {"CreateMessage", "CreateComment"}
             /\ task'[t].content # <<>>) =>
            /\ task'[t].trace = <<>>
            /\ task'[t].auth = "none"
            /\ task'[t].userId # 0 <=> task'[t].pc \in {"cm_auth", "cc_auth"}
            /\ task'[t].userId = 0 <=> task'[t].pc \in {"cm_create", "cc_get"}
       /\ (task[t].pc \in {"cm_auth", "cc_auth"} /\ task'[t].pc # task[t].pc) =>
            /\ task'[t].trace = <<"GetUser">>
            /\ task'[t].auth \in AuthOutcomes
            /\ UNCHANGED storeVars
            /\ UNCHANGED hubVars
            /\ IF task'[t].auth \in {"banned", "error"}
               THEN /\ task'[t].pc = "ret"
                    /\ task'[t].ret.err \in {"user is banned", "user lookup failed"}
               ELSE task'[t].pc \in {"cm_create", "cc_get"}
       /\ (task'[t].pc = "ret"
             /\ task'[t].op \in {"CreateMessage", "CreateComment"}) =>
            /\ task'[t].auth \in {"banned", "error"} =>
                 /\ task'[t].ret.err # ""
                 /\ task'[t].trace = <<"GetUser">>
            /\ task'[t].userId = 0 =>
                 /\ task'[t].auth = "none"
                 /\ \A i \in DOMAIN task'[t].trace : task'[t].trace[i] # "GetUser"
                 /\ task'[t].ret.err \in
                      {"", "content is required", "database error"} \cup
                      (IF task'[t].op = "CreateComment"
                       THEN {"message not found"} ELSE {})
                 /\ task'[t].ret.err = "content is required" <=>
                      task'[t].content = <<>>]_vars

C8_Witness ==
  \E t \in Tasks : /\ Returned(t, "CreateMessage")
                   /\ task[t].userId # 0
                   /\ task[t].auth = "banned"
                   /\ task[t].ret.err = "user is banned"
                   /\ task[t].trace = <<"GetUser">>

\* C9: the query of getComments(m) returns exactly the stored comments of m
\* with now < expiresAt, each once, as stored, in ascending order of
\* creation time, swept or not.
C9_OnlyLiveComments ==
  [][\A t \in Tasks :
       (/\ task[t].pc = "gc_select"
        /\ task'[t].pc = "ret"
        /\ task'[t].ret.err = "")
       => LET rows == task'[t].ret.cmts
          IN  /\ Ids(rows) = {c \in DOMAIN comments :
                                 /\ comments[c].messageId = task[t].id
                                 /\ now < comments[c].expiresAt}
              /\ Len(rows) = Cardinality(Ids(rows))
              /\ \A i \in DOMAIN rows : rows[i] = CommentOf(rows[i].id)
              /\ \A i, j \in DOMAIN rows :
                   i < j => rows[i].createdAt <= rows[j].createdAt]_vars

C9_Witness ==
  \E t \in Tasks :
    /\ Succeeded(t, "GetComments")
    /\ Len(task[t].ret.cmts) >= 1
    /\ Ids(task[t].ret.cmts) \subseteq DOMAIN comments
    /\ \E c \in DOMAIN comments : /\ comments[c].messageId = task[t].id
                                  /\ comments[c].expiresAt <= now
                                  /\ c \notin Ids(task[t].ret.cmts)

\* C10: a successful sweep at time now removes the stored comments with
\* expiresAt <= now and no other, changes no message, and leaves a store
\* from which a sweep at the same time removes nothing.
C10_SweepRemovesExpired ==
  [][(sched = "sweep" /\ sched' = "ok") =>
       /\ DOMAIN comments' = {c \in DOMAIN comments : comments[c].expiresAt > now}
       /\ \A c \in DOMAIN comments' : comments'[c] = comments[c]
       /\ messages' = messages
       /\ DeleteExpired(comments', now) = comments']_vars

C10_Witness ==
  /\ sched = "ok"
  /\ cmtSeq >= 2
  /\ \E c \in DOMAIN comments : comments[c].expiresAt > now
  /\ \E c \in 1..cmtSeq : c \notin DOMAIN comments
  /\ \A c \in DOMAIN comments : comments[c].messageId \in DOMAIN messages
  /\ Cardinality(DOMAIN messages) = msgSeq

\* a call of the repository's CreateComment that has returned comment id
\* and whose caller still holds the result
Created(t, id) ==
  /\ Succeeded(t, "RepoCreateComment")
  /\ task[t].ret.cmts[1].id = id
  /\ task'[t] = task[t]

\* C11: a comment handed to the repository's CreateComment with an
\* ExpiresAt before the time of the call is not returned by a later
\* GetComments and is gone after the next successful sweep; one handed over
\* with an ExpiresAt that is still ahead is returned by GetComments and is
\* kept by a sweep.
C11_ExpiryAsGiven ==
  [][\A t, u \in Tasks : \A id \in CommentIds :
       Created(t, id) =>
         LET given == task[t].expiresAt
             madeAt == task[t].ret.cmts[1].createdAt
         IN  /\ (/\ task[u].pc = "gc_select"
                 /\ task'[u].pc = "ret"
                 /\ task'[u].ret.err = ""
                 /\ task[u].id = task[t].id) =>
                  /\ given < madeAt => id \notin Ids(task'[u].ret.cmts)
                  /\ given > now => id \in Ids(task'[u].ret.cmts)
             /\ (sched = "sweep" /\ sched' = "ok") =>
                  /\ given < madeAt => id \notin DOMAIN comments'
                  /\ given > now => id \in DOMAIN comments']_vars

\* C12: in a run of requests made one after the other, the first statement
\* of deleteMessage(m) removes the comments of m and no other row, and its
\* second removes message m and no other message or comment of another
\* message; when the call has returned without error, m is not stored, no
\* comment of m is stored, and getCommentById finds a comment exactly if it
\* is stored, so for none of the comments the call removed.
C12_DeleteCascades ==
  [][\A t \in Tasks :
       /\ (task[t].pc = "dm_comments" /\ task'[t].pc = "dm_message") =>
            /\ DOMAIN comments' = DOMAIN comments \ ChildrenOf(task[t].id)
            /\ \A c \in DOMAIN comments' : comments'[c] = comments[c]
            /\ task'[t].gone = ChildrenOf(task[t].id)
            /\ messages' = messages
       /\ (task[t].pc = "dm_message" /\ task'[t].pc = "ret"
             /\ task'[t].ret.err = "") =>
            /\ DOMAIN messages' = DOMAIN messages \ {task[t].id}
            /\ \A m \in DOMAIN messages' : messages'[m] = messages[m]
            /\ \A c \in DOMAIN comments' : comments'[c].messageId # task[t].id
            /\ \A c \in DOMAIN comments :
                 comments[c].messageId # task[t].id =>
                   c \in DOMAIN comments' /\ comments'[c] = comments[c]
            /\ task[t].gone \cap DOMAIN comments' = {}
       /\ (task[t].pc = "idle" /\ task'[t].op = "GetCommentByID"
             /\ task'[t].ret.err # "database error") =>
            IF task'[t].id \in DOMAIN comments
            THEN task'[t].ret.cmts = <<CommentOf(task'[t].id)>>
            ELSE task'[t].ret.err = "comment not found"]_vars

C12_Witness ==
  \E t \in Tasks :
    /\ Succeeded(t, "DeleteMessage")
    /\ task[t].gone # {}
    /\ task[t].gone \cap DOMAIN comments = {}
    /\ task[t].id \notin DOMAIN messages
    /\ \E c \in DOMAIN comments : comments[c].messageId \in DOMAIN messages

\* C13: when the parent check of createComment finds no stored message with
\* the given id, the call returns "message not found" and the store is as
\* it was; a createComment that has returned that error has made no call
\* after the check, and one that has returned a comment has stored it under
\* an id that was not in use.
C13_CommentNeedsParent ==
  [][\A t \in Tasks :
       /\ (/\ task[t].pc = "cc_get"
           /\ task'[t].pc # "cc_get"
           /\ task[t].id \notin DOMAIN messages) =>
            /\ task'[t].pc = "ret"
            /\ task'[t].ret.err \in {"message not found", "database error"}
            /\ task'[t].ret.cmts = <<>>
            /\ UNCHANGED storeVars
            /\ UNCHANGED hubVars
       /\ (/\ task[t].pc = "cc_get"
           /\ task'[t].pc = "ret"
           /\ task'[t].ret.err = "message not found") =>
            task[t].id \notin DOMAIN messages
       /\ (/\ task[t].pc = "cc_insert"
           /\ task'[t].pc = "ret") =>
            /\ task'[t].ret.err # "message not found"
            /\ task'[t].ret.err = "" =>
                 /\ task'[t].ret.cmts[1].id \in DOMAIN comments' \ DOMAIN comments
                 /\ comments'[task'[t].ret.cmts[1].id].messageId = task[t].id]_vars

C13_Witness ==
  \E t \in Tasks :
    /\ Returned(t, "CreateComment")
    /\ task[t].ret.err = "message not found"
    /\ task[t].id \notin DOMAIN messages
    /\ msgSeq >= task[t].id
    /\ task[t].trace = <<"CreateComment">>

C15_FlagOfAbsentMessage ==
  [][\A t \in Tasks :
       /\ (/\ task[t].pc = "idle"
           /\ task'[t].op \in {"BanMessage", "UnbanMessage"}
           /\ task'[t].id \notin DOMAIN messages) =>
            /\ task'[t].pc = "ret"
            /\ task'[t].ret.err \in {"message not found", "database error"}
            /\ UNCHANGED storeVars
            /\ UNCHANGED hubVars
       /\ (/\ task[t].pc = "flag"
           /\ task'[t].pc # "flag"
           /\ task[t].id \notin DOMAIN messages) =>
            /\ task'[t].pc = "ret"
            /\ task'[t].ret.err \in {"message not found", "database error"}
            /\ UNCHANGED storeVars
            /\ UNCHANGED hubVars]_vars

\* the flag a banMessage (TRUE) or an unbanMessage (FALSE) sets
FlagOf(op) == op = "BanMessage"

FlagOps == {"BanMessage", "UnbanMessage"}

DeleteCommentOps == {"DeleteComment", "UseCaseDeleteComment"}

DeleteMessageOps == {"DeleteMessage", "UseCaseDeleteMessage"}

\* C17: in a run of requests made one after the other, a deleteComment of
\* a comment id that is not stored and a deleteMessage of a message id that
\* is not stored return an error (not found, unless a statement failed) and
\* leave the store as it was, in both use cases.
C17_DeleteOfAbsent ==
  [][\A t \in Tasks :
       /\ (/\ task'[t].pc = "ret" /\ task[t].pc # "ret"
           /\ task'[t].op \in DeleteCommentOps
           /\ task'[t].id \notin DOMAIN comments) =>
            /\ task'[t].ret.err \in {"comment not found", "database error"}
            /\ UNCHANGED storeVars
       /\ (/\ task'[t].pc = "ret" /\ task[t].pc # "ret"
           /\ task'[t].op \in DeleteMessageOps
           /\ task'[t].id \notin DOMAIN messages) =>
            /\ task'[t].ret.err \in {"message not found", "database error"}
            /\ UNCHANGED storeVars]_vars

\* C18: an unregister of a session that is not in the live set (never
\* registered, unregistered before, or dropped for a full queue) changes
\* neither the live set nor a channel and closes nothing; no step touches a
\* session outside the live set except to register it; the channel of every
\* session is closed at most once, and only after it was registered.
C18_UnregisterIdempotent ==
  [][/\ noops' # noops =>
          /\ \E c \in Sessions \ clients : noops' = noops \cup {c}
          /\ UNCHANGED <<clients, closed, queue, closes, enqueued, accepted>>
     /\ \A c \in Sessions :
          (c \notin clients /\ c \notin clients') =>
            /\ closes'[c] = closes[c]
            /\ (c \in closed') = (c \in closed)
            /\ enqueued'[c] = enqueued[c]
            /\ queue'[c] = queue[c] \/ queue'[c] = Tail(queue[c])
     /\ \A c \in Sessions :
          /\ closes'[c] <= 1
          /\ (c \in closed') = (closes'[c] = 1)
          /\ c \in closed' => c \in joined' /\ c \notin clients']_vars

C18_Witness ==
  \E c, d \in noops :
    /\ c \in dropped
    /\ closes[c] = 1
    /\ c \in closed
    /\ d \notin joined
    /\ closes[d] = 0
    /\ d \notin closed

\* C19: at most one sweep is in progress at any time: a sweep is running
\* exactly while the scheduler's goroutine is inside it, a tick that fires
\* meanwhile starts no sweep, and the ticks that fire during a sweep leave
\* at most one tick waiting for the scheduler.
C19_OneSweepAtATime ==
  /\ running \in {0, 1}
  /\ running = 1 <=> sched = "sweep"
  /\ ticker \in 0..1

C19_Witness == sched = "sweep" /\ running = 1 /\ ticker = 1

\* C20: a failed sweep leaves the scheduler running: sweeps are attempted
\* again and again, one follows every failed sweep, and unless the sweeps
\* stop succeeding for good, a stored comment that has expired is removed.
ExpiredStored(c) ==
  c \in DOMAIN comments /\ Expired(comments[c].expiresAt, now)

C20_SweepsGoOn ==
  /\ []<>(sched = "sweep")
  /\ (sched = "failed") ~> (sched = "sweep")
  /\ \A c \in CommentIds :
       \/ <>[](sched # "ok")
       \/ ExpiredStored(c) ~> (c \notin DOMAIN comments)

C20_Witness ==
  /\ sched = "failed"
  /\ \E c \in CommentIds : ExpiredStored(c)
\* C21: a creation that asks the auth service about its user returns,
\* whether or not the auth service ever answers: the task does not stay
\* in the lookup for ever.
InLookup(t) == task[t].pc \in {"cm_auth", "cc_auth"}

C21_LookupReturns == InLookup(1) ~> ~InLookup(1)
\* C22: with n messages listed by the List query, a getMessages(limit,
\* offset) that nothing runs beside returns min(limit, max(0, n - offset))
\* messages, the i-th of them at position offset + i of an ordering of the
\* n messages by creation time, newest first, and reports n as the total
\* whatever limit and offset are.
Least(a, b) == IF a < b THEN a ELSE b

Newer(at) == {id \in DOMAIN messages : messages[id].createdAt > at}

NotOlder(at) == {id \in DOMAIN messages : messages[id].createdAt >= at}

C22_PageOfNewestFirst ==
  Succeeded(1, "GetMessages") =>
    LET n == Cardinality(DOMAIN messages)
        got == task[1].ret.msgs
        rest == IF n > task[1].offset THEN n - task[1].offset ELSE 0
    IN  /\ Len(got) = Least(task[1].limit, rest)
        /\ task[1].ret.total = n
        /\ \A i \in DOMAIN got :
             /\ got[i].id \in DOMAIN messages
             /\ got[i] = MessageOf(got[i].id)
             /\ Cardinality(Newer(got[i].createdAt)) < task[1].offset + i
             /\ Cardinality(NotOlder(got[i].createdAt)) >= task[1].offset + i
        /\ \A i, j \in DOMAIN got : i # j => got[i].id # got[j].id

C22_Witness ==
  /\ Succeeded(1, "GetMessages")
  /\ Cardinality(DOMAIN messages) = 2
  /\ task[1].offset = 1
  /\ Len(task[1].ret.msgs) = 1
  /\ \E id \in DOMAIN messages :
       messages[id].createdAt > task[1].ret.msgs[1].createdAt
\* C23: while Hub.Run is running, every sender on the channels of the hub
\* is received from and released: a publisher, a registering and an
\* unregistering session each get their request processed, whatever the
\* state of the queues of the sessions.
C23_SendersReleased ==
  \A p \in Callers : (waiting[p] # NoRequest) ~> (waiting[p] = NoRequest)

C23_Witness ==
  \E p, q \in Callers, c \in clients :
    /\ Full(c)
    /\ waiting[p].kind = "broadcast"
    /\ waiting[q] = [kind |-> "unregister", client |-> c, message |-> NoMessage]
\* C24: no stored comment references a message that is not stored, however
\* createComment, deleteMessage, deleteComment and the sweep interleave.
C24_NoOrphanComment ==
  \A c \in DOMAIN comments : comments[c].messageId \in DOMAIN messages
\* C25: a read of the repository returns no expired comment: every comment
\* that getComments or getCommentById returns has now < expiresAt at the
\* time of the read, swept or not.
ReadsComments(t) == task'[t].op \in {"GetComments", "GetCommentByID"}

C25_NoExpiredRead ==
  [][\A t \in Tasks :
       (/\ task[t].pc # "ret"
        /\ task'[t].pc = "ret"
        /\ ReadsComments(t)
        /\ task'[t].ret.err = "")
       => \A i \in DOMAIN task'[t].ret.cmts :
            now < task'[t].ret.cmts[i].expiresAt]_vars
\* C26: createComment, deleteMessage, deleteComment, the reads and the sweep
\* publish nothing: a step of any of them, successful or failed, leaves
\* what was published and the queue of every session as they were.
Silent == {"CreateComment", "DeleteMessage", "DeleteComment", "GetMessages",
           "GetAllMessages", "GetComments", "GetCommentByID"}

feed == <<lastEvent, enqueued, queue, clients, closed>>

C26_OnlyFlagsAndCreatesPublish ==
  [][/\ \A t \in Tasks :
          (task'[t] # task[t] /\ task'[t].op \in Silent) => feed' = feed
     /\ sched' # sched => feed' = feed]_vars

C26_Witness ==
  /\ \E c \in clients : queue[c] # <<>>
  /\ Succeeded(1, "DeleteMessage")
  /\ task[1].id \notin DOMAIN messages
\* C27: a step of banMessage(id) or unbanMessage(id) changes nothing in the
\* store but the banned flag of message id: the same messages stay stored,
\* message id keeps its author, content and creation time, every other
\* message and every comment stay as they were.
Unflagged(row) == [row EXCEPT !.banned = FALSE]

C27_FlagOnly ==
  [][\A t \in Tasks :
       (task'[t] # task[t] /\ task'[t].op \in FlagOps) =>
          /\ DOMAIN messages' = DOMAIN messages
          /\ \A i \in DOMAIN messages :
               /\ Unflagged(messages'[i]) = Unflagged(messages[i])
               /\ i # task'[t].id => messages'[i] = messages[i]
          /\ comments' = comments
          /\ <<msgSeq, cmtSeq>>' = <<msgSeq, cmtSeq>>]_vars

C27_Witness ==
  /\ Succeeded(1, "BanMessage")
  /\ task[1].id \in DOMAIN messages /\ messages[task[1].id].banned
  /\ \E j \in DOMAIN messages : ~messages[j].banned
  /\ \E c \in DOMAIN comments : comments[c].messageId = task[1].id
\* C28: over HTTP, a banned flag changes and a message or a comment is
\* deleted only in a request whose bearer token validates to an admin:
\* no step of a ban, unban or delete request with another token, or with
\* none, changes the store.
AdminOps == FlagOps \cup {"DeleteMessage", "DeleteComment"}

C28_AdminOnly ==
  [][\A t \in Tasks :
       (/\ task'[t] # task[t]
        /\ task[t].op \in AdminOps
        /\ <<messages, comments>>' # <<messages, comments>>)
       => task[t].token = "admin"]_vars
\* C29: when a banMessage(id) and an unbanMessage(id) that ran side by side
\* have both returned with success, the last event published for id carries
\* the banned flag that is stored for id.
C29_LastEventIsStoredFlag ==
  \A t, u \in Tasks, id \in DOMAIN messages :
    (/\ Succeeded(t, "BanMessage") /\ task[t].id = id
     /\ Succeeded(u, "UnbanMessage") /\ task[u].id = id)
    => /\ id \in DOMAIN lastEvent
       /\ lastEvent[id].banned = messages[id].banned
\* C30: with every session registered at most once, a session in the live
\* set of the hub always has an open queue: no queue is closed twice, and
\* the hub sends on no closed queue, however register, unregister and
\* publish interleave, an overflow drop followed by the session's own
\* unregister included.
C30_LiveQueuesOpen ==
  /\ [](clients \cap closed = {})
  /\ [](\A c \in Sessions : closes[c] <= 1)
  /\ [][\A c \in Sessions :
          enqueued'[c] # enqueued[c] => c \notin closed]_vars

C30_Witness ==
  \E c \in dropped, d \in clients :
    /\ c \in noops
    /\ closes[c] = 1
    /\ c \in closed
    /\ enqueued[d] # <<>>
====
